---- MODULE Spec2Model ----
(***************************************************************************)
(* embedded-morse: Morse output on one digital pin (src/src/lib.rs).       *)
(*                                                                         *)
(* The state is one Morse emitter (its fields), the two collaborators it   *)
(* owns, seen through what a recording mock sees (the pin's last driven    *)
(* level, the sequence of calls made), and the position of output_str in   *)
(* its loops.  Characters are Unicode code points, texts are sequences of  *)
(* code points, u16 arithmetic keeps its width.                            *)
(***************************************************************************)
EXTENDS Integers, Sequences, FiniteSets, TLC

VARIABLES
    overflow_checks,  \* build profile: TRUE = overflow panics, FALSE = it wraps
    dot_length,       \* Morse.dot_length (and the argument of new)
    dash_length,      \* Morse.dash_length
    space_length,     \* Morse.space_length
    invert,           \* Morse.invert
    pin,              \* level the pin was last driven to: "unset", "high", "low"
    pin_failed,       \* the pin of this emitter has returned an error
    fail_at,          \* the pin call of this output_str call that fails (0: none)
    fail_err,         \* the error that call returns
    pin_calls,        \* pin calls made so far by this output_str call
    text,             \* the argument of the running output_str call
    output,           \* output.chars(): the characters still to come
    pattern,          \* local `pattern`
    count,            \* iterations left of `for _ in 0..morse_char.length`
    trace,            \* calls made on pin and delay by this output_str call
    result,           \* <<"none">>, <<"Ok">> or <<"Err", e>>
    pc,               \* position of the program
    prev              \* <<>> or <<r>>: the run before this one, kept for comparison

vars == <<overflow_checks, dot_length, dash_length, space_length, invert, pin,
          pin_failed, fail_at, fail_err, pin_calls, text, output, pattern,
          count, trace, result, pc, prev>>

emitter == <<dot_length, dash_length, space_length, invert>>
call == <<text, output, pattern, count, trace, result, pin_calls>>
mock == <<fail_at, fail_err>>

-----------------------------------------------------------------------------
(* Bounds of the model.                                                    *)

\* longest text over Alphabet that is passed to output_str
MaxLen == 3
\* largest index of a failing pin call
MaxFail == 5
\* largest code point of the one-character texts
MaxChar == 255

\* characters of the longer texts: 'a', 'A', ' ', '1'
Alphabet == {97, 65, 32, 49}
\* dot lengths: the default; the least whose 7-fold overflows u16; the least
\* whose 3-fold overflows u16
DotLengths == {300, 9363, 21846}
PinErrors == {"E1", "E2"}

RECURSIVE SeqsUpTo(_, _)
SeqsUpTo(S, n) ==
    IF n = 0 THEN {<<>>}
    ELSE LET shorter == SeqsUpTo(S, n - 1)
         IN  shorter \cup {Append(s, x) : s \in {t \in shorter : Len(t) = n - 1}, x \in S}

OneChar == {<<c>> : c \in 0..MaxChar}
Texts == SeqsUpTo(Alphabet, MaxLen)
\* a pin that never fails, and the pins whose n-th call fails with e
NoFail == <<0, "E1">>
Mocks == {NoFail} \cup ((1..MaxFail) \X PinErrors)

-----------------------------------------------------------------------------
(* Program constants and pure functions.                                   *)

\* u16: 0 .. 2^16 - 1
U16 == 65536
DefaultDotLength == 300
DashFactor == 3
SpaceFactor == 3
WordFactor == 7
\* 'A', the offset of the table; ' '
LetterBase == 65
SpaceChar == 32

MC(l, p) == [length |-> l, pattern |-> p]

\* pattern is written as in the source: binary literal, least bit sent first
CHARS == <<
    MC(2, 2),   \* A 0b10
    MC(4, 1),   \* B 0b0001
    MC(4, 5),   \* C 0b0101
    MC(3, 1),   \* D 0b001
    MC(1, 0),   \* E 0b0
    MC(4, 4),   \* F 0b0100
    MC(3, 3),   \* G 0b011
    MC(4, 0),   \* H 0b0000
    MC(2, 0),   \* I 0b00
    MC(4, 14),  \* J 0b1110
    MC(3, 5),   \* K 0b101
    MC(4, 2),   \* L 0b0010
    MC(2, 3),   \* M 0b11
    MC(2, 1),   \* N 0b01
    MC(3, 7),   \* O 0b111
    MC(4, 6),   \* P 0b0110
    MC(4, 11),  \* Q 0b1011
    MC(3, 2),   \* R 0b010
    MC(3, 7),   \* S 0b111
    MC(1, 1),   \* T 0b1
    MC(3, 4),   \* U 0b100
    MC(4, 8),   \* V 0b1000
    MC(3, 6),   \* W 0b110
    MC(4, 9),   \* X 0b1001
    MC(4, 13),  \* Y 0b1101
    MC(4, 3)    \* Z 0b0011
>>

\* CHARS[c as usize - 0x41]
Lookup(c) == CHARS[c - LetterBase + 1]

\* mutant: no conversion
NoUppercase(c) == c

\* char::to_ascii_uppercase: 'a'..'z' to 'A'..'Z', every other char unchanged
to_ascii_uppercase(c) == IF c \in 97..122 THEN c - 32 ELSE c

\* char::is_ascii_uppercase
is_ascii_uppercase(c) == c \in 65..90

\* mutant: a bare else, every character that is no letter is a word gap
AnyOther(c) == TRUE

\* c == ' '
IsSpace(c) == c = SpaceChar

\* a * b in u16: TRUE when the product does not fit
Overflows(a, b) == a * b >= U16

\* a * b in u16 when overflow is not checked
WrappingMul(a, b) == (a * b) % U16

\* mutant: invert ignored when driving to active
AlwaysSetHigh(inv) == "set_high"

\* if self.invert { set_low } else { set_high }
ActiveOp(inv) == IF inv THEN "set_low" ELSE "set_high"

\* mutant: invert ignored when driving to inactive
AlwaysSetLow(inv) == "set_low"

\* if self.invert { set_high } else { set_low }
InactiveOp(inv) == IF inv THEN "set_high" ELSE "set_low"

\* the level a pin call drives the pin to
LevelOf(op) == IF op = "set_high" THEN "high" ELSE "low"

\* if pattern & 0b1 == 1 { self.dash_length } else { self.dot_length }
HoldLength(p, dot, dash) == IF p % 2 = 1 THEN dash ELSE dot

\* mutant: the pattern is never shifted
NoShift(p) == p

\* pattern >> 1
ShiftRight(p) == p \div 2

\* mutant: the result of the pin call is dropped
IgnoreError(r, next) == next

\* the `?` on a pin call: where the program goes on a result
Try(r, next) == IF r = <<"Ok">> THEN next ELSE "done"

\* what the pin call number n of a call returns
PinResult(n, at, err) == IF n = at THEN <<"Err", err>> ELSE <<"Ok">>

-----------------------------------------------------------------------------
(* Construction.                                                           *)

Init ==
    /\ overflow_checks \in BOOLEAN
    /\ dot_length = 0 /\ dash_length = 0 /\ space_length = 0
    /\ invert = FALSE
    /\ pin = "unset" /\ pin_failed = FALSE
    /\ fail_at = 0 /\ fail_err = "E1" /\ pin_calls = 0
    /\ text = <<>> /\ output = <<>> /\ pattern = 0 /\ count = 0
    /\ trace = <<>> /\ result = <<"none">>
    /\ pc = "new"
    /\ prev = <<>>

\* Morse::new
Construct(d, inv) ==
    /\ dot_length' = d
    /\ invert' = inv
    /\ IF Overflows(d, DashFactor) /\ overflow_checks
       THEN /\ pc' = "panicked_new"
            /\ UNCHANGED <<dash_length, space_length>>
       ELSE /\ dash_length' = WrappingMul(d, DashFactor)
            /\ space_length' = WrappingMul(d, SpaceFactor)
            /\ pc' = "idle"
    /\ UNCHANGED <<overflow_checks, pin, pin_failed, mock, call, prev>>

New(D, I) ==
    /\ pc = "new"
    /\ \E d \in D, inv \in I : Construct(d, inv)

\* Morse::new_default
NewDefault ==
    /\ pc = "new"
    /\ \E inv \in BOOLEAN : Construct(DefaultDotLength, inv)

-----------------------------------------------------------------------------
(* output_str.                                                             *)

\* entry of output_str(t), the pin programmed by m
Enter(t, m) ==
    /\ text' = t /\ output' = t
    /\ pattern' = 0 /\ count' = 0
    /\ trace' = <<>> /\ result' = <<"none">>
    /\ pin_calls' = 0
    /\ fail_at' = m[1] /\ fail_err' = m[2]
    /\ pc' = "for"

\* the caller calls output_str on its emitter
Call(T, M) ==
    /\ pc = "idle"
    /\ \E t \in T, m \in M : Enter(t, m)
    /\ UNCHANGED <<overflow_checks, emitter, pin, pin_failed, prev>>

\* output_str has returned: the caller takes the result and the emitter is
\* ready for the next call
Recall ==
    /\ pc = "done"
    /\ text' = <<>> /\ output' = <<>>
    /\ pattern' = 0 /\ count' = 0
    /\ trace' = <<>> /\ result' = <<"none">>
    /\ pin_calls' = 0
    /\ fail_at' = 0 /\ fail_err' = "E1"
    /\ pc' = "idle"
    /\ UNCHANGED <<overflow_checks, emitter, pin, pin_failed, prev>>

\* for c in output.chars(): the next character, uppercased and dispatched
ForNext ==
    /\ pc = "for" /\ output # <<>>
    /\ output' = Tail(output)
    /\ LET c == to_ascii_uppercase(Head(output))
       IN  IF is_ascii_uppercase(c)
           THEN /\ pattern' = Lookup(c).pattern
                /\ count' = Lookup(c).length
                /\ pc' = IF Lookup(c).length > 0 THEN "on" ELSE "space"
           ELSE /\ pc' = IF IsSpace(c) THEN "word" ELSE "for"
                /\ UNCHANGED <<pattern, count>>
    /\ UNCHANGED <<overflow_checks, emitter, pin, pin_failed, mock, text,
                   trace, result, pin_calls, prev>>

\* the iterator is exhausted: Ok(())
Return ==
    /\ pc = "for" /\ output = <<>>
    /\ result' = <<"Ok">>
    /\ pc' = "done"
    /\ UNCHANGED <<overflow_checks, emitter, pin, pin_failed, mock, text,
                   output, pattern, count, trace, pin_calls, prev>>

\* self.pin.<op>()?  then continue at next
DrivePin(op, next) ==
    LET r == PinResult(pin_calls + 1, fail_at, fail_err)
    IN  /\ pin_calls' = pin_calls + 1
        /\ trace' = Append(trace, <<op, 0>>)
        /\ pc' = Try(r, next)
        /\ IF r = <<"Ok">>
           THEN /\ pin' = LevelOf(op)
                /\ UNCHANGED pin_failed
           ELSE /\ pin_failed' = TRUE
                /\ UNCHANGED pin
        /\ result' = IF Try(r, next) = "done" THEN r ELSE result
        /\ UNCHANGED <<overflow_checks, emitter, mock, text, output, pattern,
                       count, prev>>

\* self.delay.delay_ms(ms), then continue at next
DelayMs(ms, next) ==
    /\ trace' = Append(trace, <<"delay_ms", ms>>)
    /\ pc' = next

\* lines 198-202
SetActive ==
    /\ pc = "on"
    /\ DrivePin(ActiveOp(invert), "hold")

\* lines 203-207
Hold ==
    /\ pc = "hold"
    /\ DelayMs(HoldLength(pattern, dot_length, dash_length), "off")
    /\ UNCHANGED <<overflow_checks, emitter, pin, pin_failed, mock, text,
                   output, pattern, count, result, pin_calls, prev>>

\* lines 208-212
SetInactive ==
    /\ pc = "off"
    /\ DrivePin(InactiveOp(invert), "gap")

\* lines 213-215: shift, the gap after the symbol, the next iteration
Gap ==
    /\ pc = "gap"
    /\ pattern' = ShiftRight(pattern)
    /\ count' = count - 1
    /\ DelayMs(dot_length, IF count - 1 > 0 THEN "on" ELSE "space")
    /\ UNCHANGED <<overflow_checks, emitter, pin, pin_failed, mock, text,
                   output, result, pin_calls, prev>>

\* line 216
LetterSpace ==
    /\ pc = "space"
    /\ DelayMs(space_length, "for")
    /\ UNCHANGED <<overflow_checks, emitter, pin, pin_failed, mock, text,
                   output, pattern, count, result, pin_calls, prev>>

\* line 218
WordGap ==
    /\ pc = "word"
    /\ IF Overflows(dot_length, WordFactor) /\ overflow_checks
       THEN /\ pc' = "panicked"
            /\ UNCHANGED trace
       ELSE DelayMs(WrappingMul(dot_length, WordFactor), "for")
    /\ UNCHANGED <<overflow_checks, emitter, pin, pin_failed, mock, text,
                   output, pattern, count, result, pin_calls, prev>>

Step ==
    \/ ForNext
    \/ SetActive
    \/ Hold
    \/ SetInactive
    \/ Gap
    \/ LetterSpace
    \/ WordGap
    \/ Return

-----------------------------------------------------------------------------
(* Spec: one emitter, any number of output_str calls on it.                *)

Next ==
    \/ New(DotLengths, BOOLEAN)
    \/ NewDefault
    \/ Call(OneChar \cup Texts, Mocks)
    \/ Recall
    \/ Step

Spec == Init /\ [][Next]_vars

-----------------------------------------------------------------------------
(* SpecTiming: new with every u16 dot length, then output_str(" ").        *)

AllU16 == 0..(U16 - 1)

NextTiming ==
    \/ New(AllU16, {FALSE})
    \/ Call({<<SpaceChar>>}, {NoFail})
    \/ ForNext
    \/ WordGap
    \/ Return

SpecTiming == Init /\ [][NextTiming]_vars

-----------------------------------------------------------------------------
(* SpecDiff: a run of output_str, then a second run on an emitter built    *)
(* with the same dot length and fresh collaborators, differing from the    *)
(* first in one input: the invert flag, the case of the text, the          *)
(* unsupported characters of the text, or the pin call that fails.         *)

\* ASCII letters and their uppercase, as the claims state them
IsAsciiLetter(c) == (65 <= c /\ c <= 90) \/ (97 <= c /\ c <= 122)
IsSupported(c) == IsAsciiLetter(c) \/ c = 32
UpperChar(c) == IF 97 <= c /\ c <= 122 THEN c - 32 ELSE c
UpperText(t) == [i \in DOMAIN t |-> UpperChar(t[i])]
SupportedText(t) == SelectSeq(t, IsSupported)

Run == [text |-> text, invert |-> invert, mock |-> mock, trace |-> trace,
        result |-> result, pc |-> pc]

Variants ==
    {[text |-> text, invert |-> ~invert, mock |-> mock],
     [text |-> UpperText(text), invert |-> invert, mock |-> mock],
     [text |-> SupportedText(text), invert |-> invert, mock |-> mock]}
    \cup (IF mock = NoFail
          THEN {[text |-> text, invert |-> invert, mock |-> m] : m \in Mocks \ {NoFail}}
          ELSE {})

Rerun ==
    /\ pc \in {"done", "panicked"}
    /\ prev = <<>>
    /\ prev' = <<Run>>
    /\ pin' = "unset" /\ pin_failed' = FALSE
    /\ \E v \in Variants :
          /\ invert' = v.invert
          /\ Enter(v.text, v.mock)
    /\ UNCHANGED <<overflow_checks, dot_length, dash_length, space_length>>

NextDiff ==
    \/ New(DotLengths, BOOLEAN)
    \/ NewDefault
    \/ Call(OneChar \cup Texts, Mocks)
    \/ Rerun
    \/ Step

SpecDiff == Init /\ [][NextDiff]_vars

-----------------------------------------------------------------------------
(* Vocabulary of the claims, stated without the program's helpers.         *)

Ok == <<"Ok">>
Finished == pc \in {"done", "panicked"}
IsPinCall(e) == e[1] \in {"set_high", "set_low"}
IsDelay(e) == e[1] = "delay_ms"
PinCalls(tr) == SelectSeq(tr, IsPinCall)
Delays(tr) == SelectSeq(tr, IsDelay)
Delay(ms) == <<"delay_ms", ms>>

\* the calls that drive the pin to its active and to its inactive level
Active(inv) == IF inv THEN <<"set_low", 0>> ELSE <<"set_high", 0>>
Inactive(inv) == IF inv THEN <<"set_high", 0>> ELSE <<"set_low", 0>>
ActiveLevel(inv) == IF inv THEN "low" ELSE "high"
InactiveLevel(inv) == IF inv THEN "high" ELSE "low"

IsPrefix(s, t) == Len(s) <= Len(t) /\ s = SubSeq(t, 1, Len(s))

RECURSIVE Pow2(_)
Pow2(i) == IF i = 0 THEN 1 ELSE 2 * Pow2(i - 1)
Bit(p, i) == (p \div Pow2(i)) % 2

\* the text is one ASCII letter; its table entry
OneLetter(t) == Len(t) = 1 /\ IsAsciiLetter(t[1])
Entry(c) == CHARS[UpperChar(c) - 64]

\* index in tr of its n-th pin call (0 when it has fewer)
RECURSIVE NthPinFrom(_, _, _)
NthPinFrom(tr, n, i) ==
    IF i > Len(tr) THEN 0
    ELSE IF IsPinCall(tr[i])
         THEN (IF n = 1 THEN i ELSE NthPinFrom(tr, n - 1, i + 1))
         ELSE NthPinFrom(tr, n, i + 1)
NthPin(tr, n) == NthPinFrom(tr, n, 1)

RECURSIVE SumMs(_)
SumMs(tr) == IF tr = <<>> THEN 0 ELSE Head(tr)[2] + SumMs(Tail(tr))

\* the second run of SpecDiff has ended; r is the first run
Compared == prev # <<>> /\ Finished
First == prev[1]

-----------------------------------------------------------------------------
(* C1: every letter is sent as its International Morse code.               *)

Dot == "dot"
Dash == "dash"
InternationalMorse == <<
    <<Dot, Dash>>,              \* A
    <<Dash, Dot, Dot, Dot>>,    \* B
    <<Dash, Dot, Dash, Dot>>,   \* C
    <<Dash, Dot, Dot>>,         \* D
    <<Dot>>,                    \* E
    <<Dot, Dot, Dash, Dot>>,    \* F
    <<Dash, Dash, Dot>>,        \* G
    <<Dot, Dot, Dot, Dot>>,     \* H
    <<Dot, Dot>>,               \* I
    <<Dot, Dash, Dash, Dash>>,  \* J
    <<Dash, Dot, Dash>>,        \* K
    <<Dot, Dash, Dot, Dot>>,    \* L
    <<Dash, Dash>>,             \* M
    <<Dash, Dot>>,              \* N
    <<Dash, Dash, Dash>>,       \* O
    <<Dot, Dash, Dash, Dot>>,   \* P
    <<Dash, Dash, Dot, Dash>>,  \* Q
    <<Dot, Dash, Dot>>,         \* R
    <<Dot, Dot, Dot>>,          \* S
    <<Dash>>,                   \* T
    <<Dot, Dot, Dash>>,         \* U
    <<Dot, Dot, Dot, Dash>>,    \* V
    <<Dot, Dash, Dash>>,        \* W
    <<Dash, Dot, Dot, Dash>>,   \* X
    <<Dash, Dot, Dash, Dash>>,  \* Y
    <<Dash, Dash, Dot, Dot>>    \* Z
>>

\* the symbols a trace sends: one per drive to active, a dash when the delay
\* that follows it is dash_length, a dot when it is dot_length
RECURSIVE SymbolsFrom(_, _)
SymbolsFrom(tr, i) ==
    IF i >= Len(tr) THEN <<>>
    ELSE IF tr[i] = Active(invert) /\ IsDelay(tr[i + 1])
         THEN <<IF tr[i + 1][2] = dash_length THEN Dash ELSE Dot>>
              \o SymbolsFrom(tr, i + 2)
         ELSE SymbolsFrom(tr, i + 1)
Symbols(tr) == SymbolsFrom(tr, 1)

\* C1: when output_str has sent one letter without pin failure, the dots and
\* dashes it sent are the letter's International Morse code.
C1_LettersAreInternationalMorse ==
    (pc = "done" /\ result = Ok /\ OneLetter(text) /\ dash_length # dot_length)
        => Symbols(trace) = InternationalMorse[UpperChar(text[1]) - 64]

-----------------------------------------------------------------------------
(* C2: the exact operations of one letter.                                 *)

\* for i = from .. n-1: active, delay(dash or dot by bit i), inactive, delay(dot)
RECURSIVE SymbolCycles(_, _, _)
SymbolCycles(n, p, from) ==
    IF from >= n THEN <<>>
    ELSE << Active(invert),
            Delay(IF Bit(p, from) = 1 THEN dash_length ELSE dot_length),
            Inactive(invert),
            Delay(dot_length) >>
         \o SymbolCycles(n, p, from + 1)

LetterTrace(n, p) == SymbolCycles(n, p, 0) \o <<Delay(space_length)>>

\* C2: with no pin failure, output_str on one letter with table entry (n, p)
\* performs exactly the n symbol cycles in order and then delay(space_length):
\* 2n pin calls and 2n+1 delays.
C2_SingleLetterTrace ==
    (pc = "done" /\ result = Ok /\ OneLetter(text))
        => LET e == Entry(text[1])
           IN  /\ trace = LetterTrace(e.length, e.pattern)
               /\ Len(PinCalls(trace)) = 2 * e.length
               /\ Len(Delays(trace)) = 2 * e.length + 1

\* 'q' has been sent: dash dash dot dash
C2_Witness ==
    /\ pc = "done" /\ result = Ok /\ text = <<113>> /\ ~invert
    /\ dot_length = 300
    /\ Len(trace) = 17
    /\ trace[10] = Delay(300) /\ trace[14] = Delay(900) /\ trace[17] = Delay(900)

-----------------------------------------------------------------------------
(* C3: the first failing pin call ends output_str.                         *)

\* the two runs differ in the pin only: the first never failed, the second
\* fails at its call number fail_at
OnlyPinDiffers ==
    /\ prev # <<>>
    /\ First.mock = NoFail /\ fail_at >= 1
    /\ First.text = text /\ First.invert = invert

\* C3: when the N-th pin call of output_str is the first to fail, it returns
\* Err with that pin's error, and the calls it made are the calls of the
\* failure-free run up to and including the N-th pin call, nothing after it.
\* (While it runs, and when the failure-free run makes fewer than N pin
\* calls, it does what the failure-free run does.)
C3_FirstPinErrorAborts ==
    OnlyPinDiffers
        => /\ IsPrefix(trace, First.trace)
           /\ Finished =>
                IF NthPin(First.trace, fail_at) > 0
                THEN /\ pc = "done"
                     /\ result = <<"Err", fail_err>>
                     /\ trace = SubSeq(First.trace, 1, NthPin(First.trace, fail_at))
                ELSE /\ trace = First.trace
                     /\ result = First.result
                     /\ pc = First.pc

\* "aA" failed with E2 at its fifth pin call, the first drive to active of 'A'
C3_Witness ==
    /\ OnlyPinDiffers /\ pc = "done"
    /\ text = <<97, 65>> /\ fail_at = 5 /\ result = <<"Err", "E2">>
    /\ Len(trace) = 10 /\ Len(First.trace) = 18
    /\ First.result = Ok

-----------------------------------------------------------------------------
(* C5: invert swaps the levels and nothing else.                           *)

OnlyInvertDiffers ==
    /\ prev # <<>>
    /\ First.invert # invert
    /\ First.text = text /\ First.mock = mock

Opposite(e) == IF e[1] = "set_high" THEN <<"set_low", e[2]>> ELSE <<"set_high", e[2]>>

\* the k-th pin call of tr is the drive to active (k odd) or inactive (k even)
Alternates(tr, inv) ==
    \A k \in 1..Len(PinCalls(tr)) :
        PinCalls(tr)[k] = IF k % 2 = 1 THEN Active(inv) ELSE Inactive(inv)

\* C5: two runs that differ only in the invert flag make traces of equal
\* length, the same delay at every position of a delay, the opposite pin call
\* at every position of a pin call; without invert active is set_high and
\* inactive set_low, with invert active is set_low and inactive set_high.
C5_InvertSwapsLevelsOnly ==
    (OnlyInvertDiffers /\ Finished)
        => /\ Len(trace) = Len(First.trace)
           /\ \A i \in DOMAIN trace :
                IF IsDelay(trace[i])
                THEN First.trace[i] = trace[i]
                ELSE First.trace[i] = Opposite(trace[i])
           /\ Alternates(trace, invert)
           /\ Alternates(First.trace, First.invert)
           /\ PinCalls(trace) # <<>> =>
                PinCalls(trace)[1][1] = (IF invert THEN "set_low" ELSE "set_high")

\* "A" sent with invert after "A" sent without
C5_Witness ==
    /\ OnlyInvertDiffers /\ pc = "done" /\ result = Ok
    /\ text = <<65>> /\ invert /\ dot_length = 300
    /\ trace = << <<"set_low", 0>>, Delay(300), <<"set_high", 0>>, Delay(300),
                  <<"set_low", 0>>, Delay(900), <<"set_high", 0>>, Delay(300),
                  Delay(900) >>

-----------------------------------------------------------------------------
(* C6: output_str is case-insensitive.                                     *)

OnlyCaseDiffers ==
    /\ prev # <<>>
    /\ text = UpperText(First.text)
    /\ First.invert = invert /\ First.mock = mock

\* C6: the trace and the result of output_str on a text are those of
\* output_str on the text with its ASCII lowercase letters uppercased.
C6_CaseInsensitive ==
    (OnlyCaseDiffers /\ Finished)
        => /\ trace = First.trace
           /\ result = First.result
           /\ pc = First.pc

\* "AA" sent after "aA"
C6_Witness ==
    /\ OnlyCaseDiffers /\ pc = "done" /\ result = Ok
    /\ First.text = <<97, 65>> /\ text = <<65, 65>>
    /\ Len(trace) = 18

-----------------------------------------------------------------------------
(* C7: unsupported characters are skipped.                                 *)

OnlyUnsupportedDiffer ==
    /\ prev # <<>>
    /\ text = SupportedText(First.text)
    /\ First.invert = invert /\ First.mock = mock

\* C7: the trace and the result of output_str on a text are those of
\* output_str on the text without its characters that are neither ASCII
\* letters nor spaces.
C7_UnsupportedSkipped ==
    (OnlyUnsupportedDiffer /\ Finished)
        => /\ trace = First.trace
           /\ result = First.result
           /\ pc = First.pc

\* "a a" sent after "a1 1a", or the like: a text with an unsupported character
\* between supported ones
C7_Witness ==
    /\ OnlyUnsupportedDiffer /\ pc = "done" /\ result = Ok
    /\ Len(First.text) = 3 /\ Len(text) = 2
    /\ First.text[1] = 97 /\ First.text[2] = 49 /\ First.text[3] = 65
    /\ Len(trace) = 18

-----------------------------------------------------------------------------
(* C4: the derived durations are exact multiples of dot_length.            *)

\* every delay of output_str(" ") is the word gap
WordGapsAre(ms) == text = <<32>> => \A i \in DOMAIN trace : trace[i] = Delay(ms)

\* C4: for every u16 dot_length, new does not abort and sets
\* dash_length = space_length = 3 * dot_length, and the word gap output_str
\* passes to the delay is 7 * dot_length.
C4_ExactForEveryU16 ==
    /\ pc \notin {"panicked_new", "panicked"}
    /\ pc # "new" => dash_length = 3 * dot_length /\ space_length = 3 * dot_length
    /\ WordGapsAre(7 * dot_length)

\* What the code does keep: the same for every dot_length whose multiple fits
\* u16, 3 * dot_length <= 65535 for dash_length and space_length,
\* 7 * dot_length <= 65535 for the word gap.
C4_ExactWhileInU16 ==
    /\ 3 * dot_length < U16 =>
          /\ pc # "panicked_new"
          /\ pc # "new" => dash_length = 3 * dot_length /\ space_length = 3 * dot_length
    /\ 7 * dot_length < U16 =>
          /\ pc # "panicked"
          /\ WordGapsAre(7 * dot_length)

\* the largest dot_length whose word gap fits: 7 * 9362 = 65534
LargestExactWordGap ==
    /\ pc = "done" /\ text = <<32>> /\ dot_length = 9362
    /\ dash_length = 28086 /\ space_length = 28086
    /\ trace = <<Delay(65534)>>

-----------------------------------------------------------------------------
(* C8: a text of spaces.                                                   *)

AllSpaces(t) == \A i \in DOMAIN t : t[i] = 32
WordGaps(k, ms) == [i \in 1..k |-> Delay(ms)]

\* C8: output_str on k spaces makes no pin call and exactly k
\* delays of 7 * dot_length each, and returns Ok (k = 0: no call at all).
C8_SpacesOnly ==
    (Finished /\ AllSpaces(text))
        => /\ pc = "done" /\ result = Ok
           /\ PinCalls(trace) = <<>>
           /\ trace = WordGaps(Len(text), 7 * dot_length)

\* What the code does keep: the same when 7 * dot_length fits u16.
C8_SpacesOnlyInU16 ==
    (Finished /\ AllSpaces(text) /\ 7 * dot_length < U16)
        => /\ pc = "done" /\ result = Ok
           /\ PinCalls(trace) = <<>>
           /\ trace = WordGaps(Len(text), 7 * dot_length)

\* three spaces at the default dot length
ThreeSpacesSent ==
    /\ pc = "done" /\ result = Ok /\ dot_length = 300
    /\ text = <<32, 32, 32>>
    /\ trace = <<Delay(2100), Delay(2100), Delay(2100)>>

-----------------------------------------------------------------------------
(* C9: the silent period between two adjacent letters.                     *)

TwoLetters(t) == Len(t) = 2 /\ IsAsciiLetter(t[1]) /\ IsAsciiLetter(t[2])

\* the delays between the k-th pin call of tr and the next one
SilenceAfterPin(tr, k) ==
    SumMs(SubSeq(tr, NthPin(tr, k) + 1, NthPin(tr, k + 1) - 1))

\* C9: when output_str has sent two adjacent letters, the delay between the
\* last drive to inactive of the first and the first drive to active of the
\* second is 3 * dot_length.
C9_LetterGapIsThreeDots ==
    (pc = "done" /\ result = Ok /\ TwoLetters(text))
        => SilenceAfterPin(trace, 2 * Entry(text[1]).length) = 3 * dot_length

-----------------------------------------------------------------------------
(* C10: the pin alternates; it is active only while a symbol is held.      *)

\* C10: as long as the pin has not failed, the pin calls of every output_str
\* call alternate active, inactive, ... from active, and each call starts with
\* the pin not active, so the calls of a sequence of output_str calls
\* alternate; the pin is active exactly from the drive to active to the drive
\* to inactive, that is during the symbol's delay, and inactive (or never
\* driven) at every other delay; and on Ok after a pin call the last pin call
\* was the drive to inactive.
C10_PinAlternates ==
    ~pin_failed
        => /\ Alternates(trace, invert)
           /\ pc \in {"idle", "for", "on"} => pin # ActiveLevel(invert)
           /\ pc \in {"hold", "off"} => pin = ActiveLevel(invert)
           /\ pc \in {"gap", "space"} => pin = InactiveLevel(invert)
           /\ pc = "word" => pin \in {"unset", InactiveLevel(invert)}
           /\ (pc = "done" /\ result = Ok) =>
                /\ pin \in {"unset", InactiveLevel(invert)}
                /\ PinCalls(trace) # <<>> =>
                     /\ pin = InactiveLevel(invert)
                     /\ trace[NthPin(trace, Len(PinCalls(trace)))] = Inactive(invert)

\* a later call on an inverting emitter is about to hold the first symbol of
\* its second letter, the pin driven low
C10_Witness ==
    /\ ~pin_failed /\ invert /\ pc = "hold" /\ pin = "low"
    /\ text = <<97, 65, 32>> /\ output = <<32>>
    /\ Len(PinCalls(trace)) = 5
    /\ fail_at = 0

====
